---- MODULE Spec2Model ----
(***************************************************************************)
(* Model of fast_computation/discrete_fast_lcs_computation.cpp: the        *)
(* orchestrator main() with its two loops (Phase A: one-step flow maps,    *)
(* Phase B: composition and FTLE), the file-name helpers and GetPrecision. *)
(*                                                                         *)
(* Times (t_min, t_max, calc_delta_t, the flow field's clocks) are         *)
(* binary64 values s * m * 2^e with a 53-bit significand m, and every      *)
(* addition, subtraction, multiplication and division rounds to nearest,   *)
(* ties to even, as the hardware does; a division by zero gives an         *)
(* infinity or NaN.  The argument of GetPrecision is a binary64 value      *)
(* [hi, lo, e] = (hi*2^27 + lo) * 2^e, and "num *= 10" rounds in the same  *)
(* way.  A position field is the sequence of one-step flow maps that have  *)
(* been applied to the uniform grid (<<>> is the uniform grid itself).     *)
(***************************************************************************)
EXTENDS Integers, Sequences, FiniteSets, TLC

VARIABLES
    cfg,                 \* the configuration document and whether it opens
    pc,                  \* position of main()
    exitCode,            \* value returned by main(), -1 while running
    calc_delta_t,        \* line 68
    precision,           \* line 69
    t_initial,           \* lines 96/104
    t_final,             \* lines 97/105
    signed_calc_delta_t, \* lines 98/106
    sign_prefix,         \* lines 99/107
    flowDirection,       \* DiFlFi direction_, lines 95/103
    initTime,            \* DiFlFi.InitialPosition().GetTime()
    curTime,             \* DiFlFi.GetTime()
    curPos,              \* DiFlFi.CurrentPosition()
    i,                   \* counter of the loop main() is in
    ii,                  \* counter of the inner loop of Phase B
    stepFiles,           \* step_flow_maps directory: name -> content
    ftleFiles,           \* results/ftle directory: sequence of files written
    runs,                \* phases ("A"/"B") of the calls of DiFlFi.Run()
    loads,               \* loads of CalculateInterpolatedPosition in this iteration
    gp                   \* frame of a stand-alone call of GetPrecision

vars == <<cfg, pc, exitCode, calc_delta_t, precision, t_initial, t_final,
          signed_calc_delta_t, sign_prefix, flowDirection, initTime, curTime,
          curPos, i, ii, stepFiles, ftleFiles, runs, loads, gp>>

(***************************************************************************)
(* Bounds of the configurations explored.                                  *)
(***************************************************************************)
MaxSteps == 3
MaxTime == 2
MaxIter == 40


(***************************************************************************)
(* Natural numbers of any size: little-endian sequences of 15-bit digits   *)
(* without leading zero digits; <<>> is zero.                              *)
(***************************************************************************)
Base == 2^15

RECURSIVE BNorm(_)
BNorm(a) ==
    IF a = <<>> THEN a
    ELSE IF a[Len(a)] = 0 THEN BNorm(SubSeq(a, 1, Len(a) - 1)) ELSE a

RECURSIVE BFromInt(_)
BFromInt(n) == IF n = 0 THEN <<>> ELSE <<n % Base>> \o BFromInt(n \div Base)

BDigit(a, k) == IF k <= Len(a) THEN a[k] ELSE 0

RECURSIVE BAddFrom(_, _, _, _)
BAddFrom(a, b, k, c) ==
    IF k > Len(a) /\ k > Len(b)
    THEN (IF c = 0 THEN <<>> ELSE <<c>>)
    ELSE LET t == BDigit(a, k) + BDigit(b, k) + c
         IN  <<t % Base>> \o BAddFrom(a, b, k + 1, t \div Base)

BAdd(a, b) == BAddFrom(a, b, 1, 0)

\* a - b for a >= b
RECURSIVE BSubFrom(_, _, _, _)
BSubFrom(a, b, k, c) ==
    IF k > Len(a) THEN <<>>
    ELSE LET t == BDigit(a, k) - BDigit(b, k) - c
         IN  <<IF t < 0 THEN t + Base ELSE t>>
             \o BSubFrom(a, b, k + 1, IF t < 0 THEN 1 ELSE 0)

BSub(a, b) == BNorm(BSubFrom(a, b, 1, 0))

\* -1, 0, 1 as a < b, a = b, a > b
RECURSIVE BCmpFrom(_, _, _)
BCmpFrom(a, b, k) ==
    IF k = 0 THEN 0
    ELSE IF a[k] < b[k] THEN -1
    ELSE IF a[k] > b[k] THEN 1
    ELSE BCmpFrom(a, b, k - 1)

BCmp(a, b) ==
    IF Len(a) < Len(b) THEN -1
    ELSE IF Len(a) > Len(b) THEN 1
    ELSE BCmpFrom(a, b, Len(a))

\* a * m for 0 < m <= Base
RECURSIVE BMulFrom(_, _, _, _)
BMulFrom(a, m, k, c) ==
    IF k > Len(a)
    THEN (IF c = 0 THEN <<>> ELSE <<c>>)
    ELSE LET t == a[k] * m + c
         IN  <<t % Base>> \o BMulFrom(a, m, k + 1, t \div Base)

BMulSmall(a, m) == BMulFrom(a, m, 1, 0)

\* floor(a / m) and a mod m for 0 < m <= Base
RECURSIVE BDivFrom(_, _, _, _)
BDivFrom(a, m, k, r) ==
    IF k = 0 THEN [q |-> <<>>, r |-> r]
    ELSE LET t == r * Base + a[k]
             rest == BDivFrom(a, m, k - 1, t % m)
         IN  [q |-> Append(rest.q, t \div m), r |-> rest.r]

BDivSmall(a, m) ==
    LET d == BDivFrom(a, m, Len(a), 0) IN [q |-> BNorm(d.q), r |-> d.r]

BZeros(w) == [k \in 1..w |-> 0]

\* a * 2^s
BShl(a, s) ==
    IF a = <<>> THEN a ELSE BZeros(s \div 15) \o BMulSmall(a, 2^(s % 15))

\* floor(a / 2^s)
BShr(a, s) ==
    IF s \div 15 >= Len(a) THEN <<>>
    ELSE BDivSmall(SubSeq(a, s \div 15 + 1, Len(a)), 2^(s % 15)).q

\* bit k of a, k >= 0
BBit(a, k) == (BDigit(a, k \div 15 + 1) \div 2^(k % 15)) % 2

\* some bit of a below bit k is set
BAnyBelow(a, k) ==
    \/ \E j \in 1..(k \div 15) : BDigit(a, j) # 0
    \/ BDigit(a, k \div 15 + 1) % 2^(k % 15) # 0

RECURSIVE IntBits(_)
IntBits(n) == IF n = 0 THEN 0 ELSE 1 + IntBits(n \div 2)

BBitLen(a) == IF a = <<>> THEN 0 ELSE 15 * (Len(a) - 1) + IntBits(a[Len(a)])

(***************************************************************************)
(* binary64.  A finite value is s * m * 2^e with s in {1, -1} and m zero   *)
(* or of exactly 53 bits; cls tells the infinities and NaN apart.          *)
(***************************************************************************)
F64(s, m, e) == [cls |-> "finite", s |-> s, m |-> m, e |-> e]

F64Zero == F64(1, <<>>, 0)

F64Inf(s) == [cls |-> "inf", s |-> s, m |-> <<>>, e |-> 0]

NaN == [cls |-> "nan", s |-> 1, m |-> <<>>, e |-> 0]

\* s * a * 2^e (and something below the last bit of a when sticky), rounded
\* to nearest, ties to even
F64Round(s, a, e, sticky) ==
    LET n == BBitLen(a)
    IN  IF n = 0 THEN F64Zero
        ELSE IF n <= 53 THEN F64(s, BShl(a, 53 - n), e - (53 - n))
        ELSE LET sh == n - 53
                 q  == BShr(a, sh)
                 up == /\ BBit(a, sh - 1) = 1
                       /\ \/ BAnyBelow(a, sh - 1)
                          \/ sticky
                          \/ BBit(q, 0) = 1
                 m  == IF up THEN BAdd(q, <<1>>) ELSE q
             IN  IF BBitLen(m) = 54
                 THEN F64(s, BShr(m, 1), e + sh + 1)
                 ELSE F64(s, m, e + sh)

\* int converted to double
F64FromInt(k) ==
    F64Round(IF k < 0 THEN -1 ELSE 1, BFromInt(IF k < 0 THEN -k ELSE k), 0, FALSE)

F64Neg(x) == [x EXCEPT !.s = IF x.cls = "nan" THEN 1 ELSE -x.s]

\* x + y
F64Add(x, y) ==
    IF x.cls = "nan" \/ y.cls = "nan" THEN NaN
    ELSE IF x.cls = "inf"
    THEN (IF y.cls = "inf" /\ y.s # x.s THEN NaN ELSE x)
    ELSE IF y.cls = "inf" THEN y
    ELSE IF x.m = <<>> THEN (IF y.m = <<>> THEN F64Zero ELSE y)
    ELSE IF y.m = <<>> THEN x
    ELSE LET e  == IF x.e < y.e THEN x.e ELSE y.e
             a  == BShl(x.m, x.e - e)
             b  == BShl(y.m, y.e - e)
             c  == BCmp(a, b)
         IN  IF x.s = y.s THEN F64Round(x.s, BAdd(a, b), e, FALSE)
             ELSE IF c = 0 THEN F64Zero
             ELSE IF c > 0 THEN F64Round(x.s, BSub(a, b), e, FALSE)
             ELSE F64Round(y.s, BSub(b, a), e, FALSE)

F64Sub(x, y) == F64Add(x, F64Neg(y))

\* x * k for an int k converted to double
F64MulInt(x, k) ==
    LET sk == IF k < 0 THEN -1 ELSE 1
        ak == IF k < 0 THEN -k ELSE k
    IN  IF x.cls = "nan" THEN NaN
        ELSE IF x.cls = "inf" THEN (IF k = 0 THEN NaN ELSE F64Inf(x.s * sk))
        ELSE IF k = 0 \/ x.m = <<>> THEN F64Zero
        ELSE F64Round(x.s * sk, BMulSmall(x.m, ak), x.e, FALSE)

\* x / k for an int k converted to double
F64DivInt(x, k) ==
    LET sk == IF k < 0 THEN -1 ELSE 1
        ak == IF k < 0 THEN -k ELSE k
    IN  IF x.cls = "nan" THEN NaN
        ELSE IF x.cls = "inf" THEN F64Inf(x.s * sk)
        ELSE IF k = 0 THEN (IF x.m = <<>> THEN NaN ELSE F64Inf(x.s))
        ELSE IF x.m = <<>> THEN F64Zero
        ELSE LET d == BDivSmall(BShl(x.m, 75), ak)
             IN  F64Round(x.s * sk, d.q, x.e - 75, d.r # 0)

RECURSIVE BTimesTenPower(_, _)
BTimesTenPower(a, p) == IF p = 0 THEN a ELSE BTimesTenPower(BMulSmall(a, 10), p - 1)

\* std::fixed << std::setprecision(P) << x: the sign, P, and the digits as
\* the number |x| * 10^P rounded to an integer, ties to even
FormatFixed(P, x) ==
    IF x.cls # "finite" THEN [neg |-> x.s < 0, p |-> P, v |-> <<>>, text |-> x.cls]
    ELSE LET a  == BTimesTenPower(x.m, P)
             sh == -x.e
             q  == IF sh <= 0 THEN BShl(a, -sh) ELSE BShr(a, sh)
             up == /\ sh > 0
                   /\ BBit(a, sh - 1) = 1
                   /\ BAnyBelow(a, sh - 1) \/ BBit(q, 0) = 1
         IN  [neg |-> x.s < 0, p |-> P,
              v |-> IF up THEN BAdd(q, <<1>>) ELSE q, text |-> "digits"]
(***************************************************************************)
(* binary64 values of GetPrecision.  A positive value is                   *)
(* (hi * 2^27 + lo) * 2^e with 2^25 <= hi < 2^26 and 0 <= lo < 2^27; zero  *)
(* has hi = lo = 0.  dec = [n, d] is the decimal n / 10^d the value was    *)
(* read from.                                                              *)
(***************************************************************************)
Limb == 2^27

Dbl(n, d, hi, lo, e) == [dec |-> [n |-> n, d |-> d], hi |-> hi, lo |-> lo, e |-> e]

\* num *= 10 (lines 234, 309), rounded to nearest, ties to even
Times10(x) ==
    IF x.hi = 0 /\ x.lo = 0 THEN x
    ELSE LET plo == x.lo * 10
             l1  == plo % Limb
             h1  == x.hi * 10 + plo \div Limb
             s   == IF h1 >= 2^29 THEN 4 ELSE 3
             r   == l1 % 2^s
             ql  == l1 \div 2^s + (h1 % 2^s) * 2^(27 - s)
             qh  == h1 \div 2^s
             up  == r > 2^(s - 1) \/ (r = 2^(s - 1) /\ ql % 2 = 1)
             ql2 == IF up THEN ql + 1 ELSE ql
             qh2 == IF ql2 = Limb THEN qh + 1 ELSE qh
         IN  IF qh2 = 2^26
             THEN [x EXCEPT !.hi = 2^25, !.lo = 0, !.e = x.e + s + 1]
             ELSE [x EXCEPT !.hi = qh2, !.lo = ql2 % Limb, !.e = x.e + s]

\* std::abs(num - static_cast<long long>(num)) > 0 (lines 233, 308): the
\* value has a fractional part; the subtraction is exact in binary64
HasFraction(x) ==
    IF x.hi = 0 /\ x.lo = 0 THEN FALSE
    ELSE IF x.e >= 0 THEN FALSE
    ELSE IF x.e <= -53 THEN TRUE
    ELSE IF -x.e <= 27 THEN x.lo % 2^(-x.e) # 0
    ELSE x.lo # 0 \/ x.hi % 2^(-x.e - 27) # 0

\* the loop of GetPrecision (lines 231-238), from a frame [num, precision]
GetPrecisionInit(num) == [num |-> num, precision |-> 0]

GetPrecisionCond(f) == HasFraction(f.num)

GetPrecisionBody(f) == [num |-> Times10(f.num), precision |-> f.precision + 1]

RECURSIVE GetPrecisionLoop(_)
GetPrecisionLoop(f) ==
    IF GetPrecisionCond(f) /\ f.precision < MaxIter
    THEN GetPrecisionLoop(GetPrecisionBody(f))
    ELSE f.precision

GetPrecision(num) == GetPrecisionLoop(GetPrecisionInit(num))

(***************************************************************************)
(* The values of data_delta_t: those of whole runs, and those given to     *)
(* GetPrecision on its own.                                                *)
(***************************************************************************)
RunDeltas ==
    { Dbl(1, 0, 33554432, 0, -52),
      Dbl(2, 1, 53687091, 26843546, -55),
      Dbl(25, 2, 33554432, 0, -54),
      Dbl(7, 2, 37580963, 112742892, -56) }

PrecisionInputs ==
    RunDeltas \cup
    { Dbl(0, 0, 0, 0, 0),
      Dbl(20, 0, 41943040, 0, -48),
      Dbl(5, 1, 33554432, 0, -53),
      Dbl(50, 2, 33554432, 0, -53),
      Dbl(125, 3, 33554432, 0, -55),
      Dbl(1, 1, 53687091, 26843546, -56),
      Dbl(5, 2, 53687091, 26843546, -57),
      Dbl(1, 2, 42949672, 128849019, -59),
      Dbl(57, 2, 38252052, 64424509, -53),
      Dbl(1, 3, 34359738, 49392124, -62),
      Dbl(1, 13, 59029581, 4814466, -96),
      Dbl(25, 1, 41943040, 0, -51) }

(***************************************************************************)
(* The configuration document fast_computation/sim_params.json.            *)
(***************************************************************************)
\* KeysRead without the read of "steps"
KeysReadWithoutSteps ==
    { "x_min", "x_max", "y_min", "y_max", "nx", "ny", "data_nx", "data_ny",
      "t_min", "t_max", "data_delta_t", "file_prefix", "direction" }

\* the keys main() reads, lines 50-63
KeysRead ==
    { "x_min", "x_max", "y_min", "y_max", "nx", "ny", "data_nx", "data_ny",
      "t_min", "t_max", "data_delta_t", "steps", "file_prefix", "direction" }

\* the keys of the example document of the README (part_000, lines 93-108)
RecognizedKeys ==
    { "x_min", "x_max", "y_min", "y_max", "nx", "ny", "data_nx", "data_ny",
      "t_min", "t_max", "data_delta_t", "steps", "file_prefix", "direction" }

Documents ==
    { RecognizedKeys,
      RecognizedKeys \cup {"comment"},
      RecognizedKeys \ {"x_min"},
      RecognizedKeys \ {"steps"},
      RecognizedKeys \ {"direction"},
      (RecognizedKeys \ {"t_max"}) \cup {"comment"} }

Directions == {"forward", "backward", "sideways"}

Configs ==
    { c \in [fileOpen : BOOLEAN, keys : Documents, direction : Directions,
             steps : 0..MaxSteps, t_min : 0..MaxTime, t_max : 0..MaxTime,
             data_delta_t : RunDeltas] : c.t_min < c.t_max }

\* json[key] converted to a number or a string, for a key the document lacks
JsonGetFails(keys, wanted) == \E k \in wanted : k \notin keys

\* the exit status of a run ended by a rejected document
JsonErrorExit == 1

\* the exit status of a run ended by a file that cannot be read
IOErrorExit == 1

\* return 1, lines 43 and 111
ExitFailure == 1

ExitSuccess == 0

Running == -1

(***************************************************************************)
(* The flow field DiFlFi: its clocks and its position field.               *)
(***************************************************************************)
UniformGrid == <<>>

StepMap(from, to) == [from |-> from, to |-> to]

\* the content read from a name that is not in the directory
Missing == <<StepMap(NaN, NaN)>>

\* SetAll left out: the position field stays as it is
SetAllSkipped(pos) == pos

\* DiFlFi.CurrentPosition().SetAll(x_min,x_max,y_min,y_max), line 134: the
\* position field becomes the uniform grid again
SetAll(pos) == UniformGrid

\* DiFlFi.UpdateTime(): the current time moves by delta in the direction
UpdateTime(dir, delta, t) ==
    IF dir = "Forward" THEN F64Add(t, delta) ELSE F64Sub(t, delta)

\* DiFlFi.Run() with SetStep(1): one output step of advection
Run(dir, delta, t, pos) ==
    [time |-> UpdateTime(dir, delta, t),
     pos  |-> Append(pos, StepMap(t, UpdateTime(dir, delta, t)))]

\* InterpPosition.InterpolateFrom(StepPosition): the step map resampled at
\* the current positions
InterpolateFrom(pos, step) == pos \o step

(***************************************************************************)
(* File names and the two directories.                                     *)
(***************************************************************************)
CreateFileName(prefix, P, t) == [prefix |-> prefix, t |-> FormatFixed(P, t)]

\* CreateFTLEFileName with the forward order in both directions
CreateFTLEFileNameForwardOrder(dir, prefix, P, t0, t) ==
    [prefix |-> prefix, a |-> FormatFixed(P, t0), b |-> FormatFixed(P, t)]

CreateFTLEFileName(dir, prefix, P, t0, t) ==
    IF dir = "Forward"
    THEN [prefix |-> prefix, a |-> FormatFixed(P, t0), b |-> FormatFixed(P, t)]
    ELSE [prefix |-> prefix, a |-> FormatFixed(P, t), b |-> FormatFixed(P, t0)]

WriteToMemoryMappedFile(dir, name, content) ==
    [n \in DOMAIN dir \cup {name} |-> IF n = name THEN content ELSE dir[n]]

ReadFromMemoryMappedFile(dir, name) ==
    IF name \in DOMAIN dir THEN dir[name] ELSE Missing

\* CalculateInterpolatedPosition, lines 220-229
CalculateInterpolatedPosition(dir, prefix, P, t, pos) ==
    LET s_flow_maps == CreateFileName(prefix, P, t)
        StepPosition == ReadFromMemoryMappedFile(dir, s_flow_maps)
    IN  [load |-> [name |-> s_flow_maps, time |-> t,
                   found |-> s_flow_maps \in DOMAIN dir,
                   content |-> StepPosition],
         new_position |-> InterpolateFrom(pos, StepPosition)]

(***************************************************************************)
(* main(), lines 29-174.                                                   *)
(***************************************************************************)
\* PhaseALoopCond with one turn more
PhaseALoopCondInclusive(k, n) == k <= n

\* i < steps, line 126
PhaseALoopCond(k, n) == k < n

\* PhaseBLoopCond with one turn more
PhaseBLoopCondInclusive(k, n) == k <= n

\* i < steps, line 145
PhaseBLoopCond(k, n) == k < n

\* InnerLoopCond with one turn less
InnerLoopCondStrict(kk, k) == kk < k

\* ii <= i, line 151
InnerLoopCond(kk, k) == kk <= k

\* t_final - signed_calc_delta_t * (i+1), line 147
OriginTime(tf, sdt, k) == F64Sub(tf, F64MulInt(sdt, k + 1))

\* direction == "forward", line 94
IsForward(d) == d = "forward"

\* IsBackward as a plain else
IsBackwardElse(d) == d # "forward"

\* direction == "backward", line 102
IsBackward(d) == d = "backward"

IdleFrame == [pc |-> "idle"]

Init ==
    /\ cfg \in Configs
    /\ pc = "open"
    /\ exitCode = Running
    /\ calc_delta_t = NaN
    /\ precision = 0
    /\ t_initial = NaN
    /\ t_final = NaN
    /\ signed_calc_delta_t = NaN
    /\ sign_prefix = ""
    /\ flowDirection = "Forward"
    /\ initTime = F64Zero
    /\ curTime = F64Zero
    /\ curPos = UniformGrid
    /\ i = 0
    /\ ii = 0
    /\ stepFiles = <<>>
    /\ ftleFiles = <<>>
    /\ runs = <<>>
    /\ loads = <<>>
    /\ gp = IdleFrame

\* lines 38-44
OpenConfig ==
    /\ pc = "open"
    /\ IF cfg.fileOpen
       THEN pc' = "read" /\ exitCode' = exitCode
       ELSE pc' = "failed" /\ exitCode' = ExitFailure
    /\ UNCHANGED <<cfg, calc_delta_t, precision, t_initial, t_final,
                   signed_calc_delta_t, sign_prefix, flowDirection, initTime,
                   curTime, curPos, i, ii, stepFiles, ftleFiles, runs, loads, gp>>

\* lines 45-87
ReadSettings ==
    /\ pc = "read"
    /\ IF JsonGetFails(cfg.keys, KeysRead)
       THEN /\ pc' = "failed"
            /\ exitCode' = JsonErrorExit
            /\ UNCHANGED <<calc_delta_t, precision>>
       ELSE /\ calc_delta_t' =
                   F64DivInt(F64Sub(F64FromInt(cfg.t_max), F64FromInt(cfg.t_min)),
                             cfg.steps)
            /\ precision' = GetPrecision(cfg.data_delta_t)
            /\ pc' = "direction"
            /\ exitCode' = exitCode
    /\ UNCHANGED <<cfg, t_initial, t_final, signed_calc_delta_t, sign_prefix,
                   flowDirection, initTime, curTime, curPos, i, ii, stepFiles,
                   ftleFiles, runs, loads, gp>>

\* lines 89-112
SetupDirection ==
    /\ pc = "direction"
    /\ IF IsForward(cfg.direction)
       THEN /\ flowDirection' = "Forward"
            /\ t_initial' = F64FromInt(cfg.t_min)
            /\ t_final' = F64FromInt(cfg.t_max)
            /\ signed_calc_delta_t' = calc_delta_t
            /\ sign_prefix' = "positive_"
            /\ pc' = "stepmaps"
            /\ exitCode' = exitCode
       ELSE IF IsBackward(cfg.direction)
       THEN /\ flowDirection' = "Backward"
            /\ t_initial' = F64FromInt(cfg.t_max)
            /\ t_final' = F64FromInt(cfg.t_min)
            /\ signed_calc_delta_t' = F64Neg(calc_delta_t)
            /\ sign_prefix' = "negative_"
            /\ pc' = "stepmaps"
            /\ exitCode' = exitCode
       ELSE /\ pc' = "failed"
            /\ exitCode' = ExitFailure
            /\ UNCHANGED <<flowDirection, t_initial, t_final,
                           signed_calc_delta_t, sign_prefix>>
    /\ UNCHANGED <<cfg, calc_delta_t, precision, initTime, curTime, curPos,
                   i, ii, stepFiles, ftleFiles, runs, loads, gp>>

\* lines 117-123: the identity step map at t_initial
InitStepMaps ==
    /\ pc = "stepmaps"
    /\ initTime' = t_initial
    /\ curTime' = t_initial
    /\ stepFiles' = WriteToMemoryMappedFile(stepFiles,
                        CreateFileName(sign_prefix, precision, t_initial),
                        UniformGrid)
    /\ curPos' = UniformGrid
    /\ i' = 0
    /\ pc' = "phaseA"
    /\ UNCHANGED <<cfg, exitCode, calc_delta_t, precision, t_initial, t_final,
                   signed_calc_delta_t, sign_prefix, flowDirection, ii,
                   ftleFiles, runs, loads, gp>>

\* lines 126-135: one step flow map
PhaseAStep ==
    /\ pc = "phaseA"
    /\ PhaseALoopCond(i, cfg.steps)
    /\ LET r == Run(flowDirection, calc_delta_t, curTime, curPos)
       IN  /\ curTime' = r.time
           /\ stepFiles' = WriteToMemoryMappedFile(stepFiles,
                               CreateFileName(sign_prefix, precision, r.time),
                               r.pos)
           /\ curPos' = SetAll(r.pos)
    /\ runs' = Append(runs, "A")
    /\ i' = i + 1
    /\ UNCHANGED <<cfg, pc, exitCode, calc_delta_t, precision, t_initial,
                   t_final, signed_calc_delta_t, sign_prefix, flowDirection,
                   initTime, ii, ftleFiles, loads, gp>>

\* lines 136-143
PhaseAEnd ==
    /\ pc = "phaseA"
    /\ ~PhaseALoopCond(i, cfg.steps)
    /\ i' = 0
    /\ pc' = "phaseB"
    /\ UNCHANGED <<cfg, exitCode, calc_delta_t, precision, t_initial, t_final,
                   signed_calc_delta_t, sign_prefix, flowDirection, initTime,
                   curTime, curPos, ii, stepFiles, ftleFiles, runs, loads, gp>>

\* lines 145-149
PhaseBBegin ==
    /\ pc = "phaseB"
    /\ PhaseBLoopCond(i, cfg.steps)
    /\ initTime' = OriginTime(t_final, signed_calc_delta_t, i)
    /\ curTime' = OriginTime(t_final, signed_calc_delta_t, i)
    /\ curPos' = UniformGrid
    /\ ii' = 0
    /\ loads' = <<>>
    /\ pc' = "compose"
    /\ UNCHANGED <<cfg, exitCode, calc_delta_t, precision, t_initial, t_final,
                   signed_calc_delta_t, sign_prefix, flowDirection, i,
                   stepFiles, ftleFiles, runs, gp>>

\* lines 151-156; a step map that cannot be read ends the run
ComposeStep ==
    /\ pc = "compose"
    /\ InnerLoopCond(ii, i)
    /\ LET c == CalculateInterpolatedPosition(stepFiles, sign_prefix, precision,
                                              curTime, curPos)
       IN  /\ loads' = Append(loads, c.load)
           /\ IF c.load.found
              THEN /\ curPos' = c.new_position
                   /\ curTime' = UpdateTime(flowDirection, calc_delta_t, curTime)
                   /\ ii' = ii + 1
                   /\ UNCHANGED <<pc, exitCode>>
              ELSE /\ pc' = "failed"
                   /\ exitCode' = IOErrorExit
                   /\ UNCHANGED <<curPos, curTime, ii>>
    /\ UNCHANGED <<cfg, calc_delta_t, precision, t_initial, t_final,
                   signed_calc_delta_t, sign_prefix, flowDirection, initTime,
                   i, stepFiles, ftleFiles, runs, gp>>

\* lines 157-164
EmitFTLE ==
    /\ pc = "compose"
    /\ ~InnerLoopCond(ii, i)
    /\ ftleFiles' = Append(ftleFiles,
           [name |-> CreateFTLEFileName(flowDirection, sign_prefix, precision,
                                        initTime, curTime),
            origin |-> initTime, final |-> curTime, pos |-> curPos, iter |-> i,
            loads |-> loads])
    /\ i' = i + 1
    /\ pc' = "phaseB"
    /\ UNCHANGED <<cfg, exitCode, calc_delta_t, precision, t_initial, t_final,
                   signed_calc_delta_t, sign_prefix, flowDirection, initTime,
                   curTime, curPos, ii, stepFiles, runs, loads, gp>>

\* lines 166-173
Finish ==
    /\ pc = "phaseB"
    /\ ~PhaseBLoopCond(i, cfg.steps)
    /\ pc' = "done"
    /\ exitCode' = ExitSuccess
    /\ UNCHANGED <<cfg, calc_delta_t, precision, t_initial, t_final,
                   signed_calc_delta_t, sign_prefix, flowDirection, initTime,
                   curTime, curPos, i, ii, stepFiles, ftleFiles, runs, loads, gp>>

Next ==
    \/ OpenConfig
    \/ ReadSettings
    \/ SetupDirection
    \/ InitStepMaps
    \/ PhaseAStep
    \/ PhaseAEnd
    \/ PhaseBBegin
    \/ ComposeStep
    \/ EmitFTLE
    \/ Finish

Spec == Init /\ [][Next]_vars

(***************************************************************************)
(* GetPrecision on its own: both programs of the repository call it with   *)
(* data_delta_t (line 69 and line 282).                                    *)
(***************************************************************************)
Callers == {"discrete_fast_lcs_computation", "create_discrete_data"}

DefaultConfig ==
    [fileOpen |-> TRUE, keys |-> RecognizedKeys, direction |-> "forward", steps |-> 1,
     t_min |-> 0, t_max |-> 1, data_delta_t |-> Dbl(1, 0, 33554432, 0, -52)]

InitPrecision ==
    /\ cfg = DefaultConfig
    /\ pc = "idle"
    /\ exitCode = Running
    /\ calc_delta_t = NaN
    /\ precision = 0
    /\ t_initial = NaN
    /\ t_final = NaN
    /\ signed_calc_delta_t = NaN
    /\ sign_prefix = ""
    /\ flowDirection = "Forward"
    /\ initTime = F64Zero
    /\ curTime = F64Zero
    /\ curPos = UniformGrid
    /\ i = 0
    /\ ii = 0
    /\ stepFiles = <<>>
    /\ ftleFiles = <<>>
    /\ runs = <<>>
    /\ loads = <<>>
    /\ \E c \in Callers, x \in PrecisionInputs :
          gp = [pc |-> "loop", caller |-> c, input |-> x,
                frame |-> GetPrecisionInit(x), result |-> -1]

mainVars == <<cfg, pc, exitCode, calc_delta_t, precision, t_initial, t_final,
              signed_calc_delta_t, sign_prefix, flowDirection, initTime,
              curTime, curPos, i, ii, stepFiles, ftleFiles, runs, loads>>

\* lines 233-236: one turn of the loop
PrecisionIterate ==
    /\ gp.pc = "loop"
    /\ GetPrecisionCond(gp.frame)
    /\ gp.frame.precision < MaxIter
    /\ gp' = [gp EXCEPT !.frame = GetPrecisionBody(gp.frame)]
    /\ UNCHANGED mainVars

\* line 237
PrecisionReturn ==
    /\ gp.pc = "loop"
    /\ ~GetPrecisionCond(gp.frame)
    /\ gp' = [gp EXCEPT !.pc = "done", !.result = gp.frame.precision]
    /\ UNCHANGED mainVars

NextPrecision ==
    \/ PrecisionIterate
    \/ PrecisionReturn

SpecPrecision == InitPrecision /\ [][NextPrecision]_vars

(***************************************************************************)
(* Properties.                                                             *)
(***************************************************************************)

\* the smallest P >= 0 such that (n / 10^d) * 10^P is an integer
RECURSIVE MinDecimals(_)
MinDecimals(dec) ==
    IF dec.n = 0 THEN 0
    ELSE IF dec.d = 0 \/ dec.n % 10 # 0 THEN dec.d
    ELSE MinDecimals([n |-> dec.n \div 10, d |-> dec.d - 1])

\* x after k rounded multiplications by ten
RECURSIVE TimesTenPower(_, _)
TimesTenPower(x, k) == IF k = 0 THEN x ELSE TimesTenPower(Times10(x), k - 1)

\* C8 as stated: GetPrecision(num) returns the smallest non-negative P such
\* that num * 10^P is integral, and never more than the cap of 12.
C8_SmallestAndCapped ==
    gp.pc = "done" =>
        /\ gp.result = MinDecimals(gp.input.dec)
        /\ gp.result <= 12

\* What the loop does return: the number of multiplications by ten, each
\* rounded to binary64, after which the value first has no fractional part.
\* 0.2 gives 1, but 0.07 gives 17 and 1e-13 gives 29.
FirstIntegralProduct ==
    /\ gp.pc = "loop" /\ GetPrecisionCond(gp.frame) => gp.frame.precision < MaxIter
    /\ gp.pc = "done" =>
          /\ ~HasFraction(TimesTenPower(gp.input, gp.result))
          /\ \A k \in 0..(gp.result - 1) : HasFraction(TimesTenPower(gp.input, k))
          /\ gp.input.dec = [n |-> 2, d |-> 1] => gp.result = 1
          /\ gp.input.dec = [n |-> 7, d |-> 2] => gp.result = 17
          /\ gp.input.dec = [n |-> 1, d |-> 13] => gp.result = 29

\* a call that returned more than twelve, and more than the decimals of num
ReturnedBeyondCap ==
    /\ gp.pc = "done"
    /\ gp.result > 12
    /\ gp.result > MinDecimals(gp.input.dec)

(***************************************************************************)
(* The times of a run, from the configuration alone (steps >= 1).          *)
(***************************************************************************)
Sign(c) == IF c.direction = "forward" THEN 1 ELSE -1

InitialOf(c) == IF c.direction = "forward" THEN c.t_min ELSE c.t_max

FinalOf(c) == IF c.direction = "forward" THEN c.t_max ELSE c.t_min

\* the real number base + Sign * m * dt with dt = (t_max - t_min) / steps,
\* as the fraction n / d
TimeAt(c, base, m) ==
    [n |-> base * c.steps + Sign(c) * m * (c.t_max - c.t_min), d |-> c.steps]

\* the binary64 value x is within 2^-40 of the fraction r
Near(x, r) ==
    /\ x.cls = "finite"
    /\ r.d > 0
    /\ LET k    == IF x.e < 0 THEN -x.e ELSE 0
           a    == BShl(BMulSmall(x.m, r.d), x.e + k)
           b    == BShl(BFromInt(IF r.n < 0 THEN -r.n ELSE r.n), k)
           same == x.m = <<>> \/ r.n = 0 \/ (x.s < 0 <=> r.n < 0)
           diff == IF ~same THEN BAdd(a, b)
                   ELSE IF BCmp(a, b) >= 0 THEN BSub(a, b) ELSE BSub(b, a)
       IN  BCmp(BShl(diff, 40), BShl(BFromInt(r.d), k)) <= 0

\* -1, 0, 1 as x < y, x = y, x > y, for finite x and y
Order(x, y) ==
    LET d == F64Sub(x, y) IN IF d.m = <<>> THEN 0 ELSE d.s

\* calc_delta_t and signed_calc_delta_t as the run computes them
DeltaOf(c) ==
    F64DivInt(F64Sub(F64FromInt(c.t_max), F64FromInt(c.t_min)), c.steps)

SignedDeltaOf(c) == IF c.direction = "forward" THEN DeltaOf(c) ELSE F64Neg(DeltaOf(c))

\* t after m additions of the signed step, each one rounded
RECURSIVE Advanced(_, _, _)
Advanced(c, t, m) ==
    IF m = 0 THEN t ELSE F64Add(Advanced(c, t, m - 1), SignedDeltaOf(c))

\* t_final - sign * dt * (k+1), the product and the difference rounded
ExpectedOrigin(c, k) ==
    F64Sub(F64FromInt(FinalOf(c)), F64MulInt(SignedDeltaOf(c), k + 1))

\* t_initial + sign * dt * s, the product and the sum rounded
GridTime(c, s) ==
    F64Add(F64FromInt(InitialOf(c)), F64MulInt(SignedDeltaOf(c), s))

PrefixOf(c) == IF c.direction = "forward" THEN "positive_" ELSE "negative_"

\* the names of the files Phase A writes: the identity map and one map for
\* each step, named by the clock after the step
PhaseANames(c) ==
    { CreateFileName(PrefixOf(c), GetPrecision(c.data_delta_t),
                     Advanced(c, F64FromInt(InitialOf(c)), s)) : s \in 0..c.steps }

ValidDirection(c) == c.direction \in {"forward", "backward"}

InPhases == pc \in {"stepmaps", "phaseA", "phaseB", "compose", "done"}

Terminated == pc \in {"done", "failed"}

\* the run was ended by a step map that could not be read
ReadFailed == pc = "failed" /\ loads # <<>>

\* the loads of every Phase B iteration so far: those of the iterations that
\* emitted their FTLE file and those of the iteration under way or ended by
\* a failed load
IterationLoads ==
    { [iter |-> ftleFiles[k].iter, loads |-> ftleFiles[k].loads,
       complete |-> TRUE] : k \in 1..Len(ftleFiles) }
    \cup (IF pc = "compose" \/ ReadFailed
          THEN {[iter |-> i, loads |-> loads, complete |-> FALSE]}
          ELSE {})

RECURSIVE Flatten(_)
Flatten(seqs) == IF seqs = <<>> THEN <<>> ELSE Head(seqs) \o Flatten(Tail(seqs))

\* C1: with steps = N >= 1 the advector DiFlFi.Run is invoked exactly N
\* times, all of them in Phase A; Phase B never invokes it, and every
\* position update of Phase B is a resampling of a step-map file that was
\* written before.
C1_AdvectorOnlyInPhaseA ==
    /\ \A k \in 1..Len(runs) : runs[k] = "A"
    /\ pc = "phaseA" => Len(runs) = i
    /\ pc \in {"phaseB", "compose", "done"} => Len(runs) = cfg.steps
    /\ pc = "compose" =>
          /\ Len(loads) = ii
          /\ \A r \in 1..Len(loads) : loads[r].found
          /\ curPos = Flatten([r \in 1..Len(loads) |-> loads[r].content])
    /\ \A k \in 1..Len(ftleFiles) :
          LET f == ftleFiles[k]
          IN  /\ f.pos = Flatten([r \in 1..Len(f.loads) |-> f.loads[r].content])
              /\ \A r \in 1..Len(f.loads) : f.loads[r].found

C1_Witness ==
    /\ pc = "done"
    /\ cfg.steps >= 2
    /\ Len(runs) = cfg.steps
    /\ Len(ftleFiles) = cfg.steps

C3_LoadsOnlyWrittenMaps ==
    \A it \in IterationLoads :
        \A r \in 1..Len(it.loads) :
            /\ \E s \in 0..cfg.steps :
                  Near(it.loads[r].time, TimeAt(cfg, InitialOf(cfg), s))
            /\ it.loads[r].name \in PhaseANames(cfg)
            /\ it.loads[r].found
            /\ it.loads[r].name \in DOMAIN stepFiles
            /\ it.loads[r].content # Missing

\* C4: the name of an FTLE file carries (origin time, final time) in a
\* forward run and (final time, origin time) in a backward run, the origin
\* time being the time of the initial position and the final time the
\* current time after the composition.
C4_FTLENameOrder ==
    \A k \in 1..Len(ftleFiles) :
        LET f == ftleFiles[k]
            origin == FormatFixed(precision, ExpectedOrigin(cfg, f.iter))
            final == FormatFixed(precision,
                         Advanced(cfg, ExpectedOrigin(cfg, f.iter), f.iter + 1))
        IN  /\ f.origin = ExpectedOrigin(cfg, f.iter)
            /\ f.final = Advanced(cfg, ExpectedOrigin(cfg, f.iter), f.iter + 1)
            /\ Near(f.final, TimeAt(cfg, FinalOf(cfg), 0))
            /\ cfg.direction = "forward" => f.name.a = origin /\ f.name.b = final
            /\ cfg.direction = "backward" => f.name.a = final /\ f.name.b = origin

C4_Witness ==
    /\ cfg.direction = "backward"
    /\ Len(ftleFiles) >= 1
    /\ ftleFiles[1].name.a # ftleFiles[1].name.b
    /\ ftleFiles[1].name.a = FormatFixed(precision, F64FromInt(cfg.t_min))

\* C5: when the configuration file cannot be opened, or direction is neither
\* 'forward' nor 'backward', the run ends with exit code 1 and has neither
\* invoked the advector nor written a step-map or FTLE file; a run that
\* completes both phases ends with exit code 0.
ConfigError(c) ==
    \/ ~c.fileOpen
    \/ RecognizedKeys \subseteq c.keys /\ ~ValidDirection(c)

C5_ConfigErrorBeforeCompute ==
    /\ ConfigError(cfg) =>
          /\ ~InPhases
          /\ runs = <<>> /\ stepFiles = <<>> /\ ftleFiles = <<>>
          /\ Terminated => pc = "failed" /\ exitCode = 1
    /\ pc = "done" => exitCode = 0 /\ ~ConfigError(cfg)
    /\ ~Terminated => exitCode = Running

C5_Witness ==
    /\ pc = "failed"
    /\ cfg.fileOpen
    /\ RecognizedKeys \subseteq cfg.keys
    /\ cfg.direction = "sideways"
    /\ exitCode = 1

\* C6 as stated: a document with a key outside the recognized set, or
\* without one of the recognized keys, is rejected: exit code 1 and no phase
\* started.
C6_UnknownAndMissingRejected ==
    cfg.fileOpen /\ cfg.keys # RecognizedKeys =>
        /\ ~InPhases
        /\ Terminated => exitCode = 1

\* C6 amended: a document without one of the recognized keys ends the run as
\* a fatal error before any phase is started; a key outside the recognized
\* set is not rejected: it is never looked at, and the run goes through the
\* phases as it does without that key, with exit code 0 when it completes
\* (nothing but a step map that cannot be read ends it before).
C6_MissingRejectedUnknownIgnored ==
    /\ cfg.fileOpen /\ ~(RecognizedKeys \subseteq cfg.keys) =>
          /\ ~InPhases
          /\ runs = <<>> /\ stepFiles = <<>> /\ ftleFiles = <<>>
          /\ Terminated => pc = "failed" /\ exitCode # 0
    /\ cfg.fileOpen /\ RecognizedKeys \subseteq cfg.keys /\ ValidDirection(cfg) =>
          /\ pc = "failed" => ReadFailed
          /\ pc = "done" => exitCode = 0 /\ Len(ftleFiles) = cfg.steps

C6_Witness ==
    /\ pc = "done"
    /\ "comment" \in cfg.keys
    /\ cfg.steps >= 1
    /\ Len(ftleFiles) = cfg.steps

\* C7 as stated: with steps = 0 the run completes and emits an FTLE file
\* whose time stamps are t_origin = t_final = t_max.
C7_ZeroStepsEmitsFTLE ==
    pc = "done" /\ cfg.steps = 0 =>
        \E k \in 1..Len(ftleFiles) :
            /\ ftleFiles[k].origin = F64FromInt(cfg.t_max)
            /\ ftleFiles[k].final = F64FromInt(cfg.t_max)

\* C7 amended: with steps = 0 the run completes with exit code 0 and emits
\* no FTLE file: neither loop body runs, the advector is not invoked, and
\* the only file written is the identity step map at t_initial.
C7_ZeroStepsEmitsNothing ==
    cfg.steps = 0 =>
        /\ ftleFiles = <<>>
        /\ runs = <<>>
        /\ pc # "compose"
        /\ pc = "done" =>
              /\ exitCode = 0
              /\ DOMAIN stepFiles =
                     {CreateFileName(sign_prefix, precision,
                                     F64FromInt(InitialOf(cfg)))}
              /\ \A n \in DOMAIN stepFiles : stepFiles[n] = UniformGrid

C7_Witness ==
    /\ pc = "done"
    /\ cfg.steps = 0
    /\ exitCode = 0
    /\ ftleFiles = <<>>

\* C9: at every composition step the file loaded is the step map whose start
\* time is the current time P.t of the position field: the map Phase A made
\* by advecting the uniform grid from P.t to P.t + sign*dt.
C9_LoadedMapStartsAtCurrentTime ==
    \A it \in IterationLoads :
        \A r \in 1..Len(it.loads) :
            it.loads[r].content =
                <<StepMap(it.loads[r].time,
                          F64Add(it.loads[r].time, signed_calc_delta_t))>>

\* C10: the identity step map written at t_initial is never read: no load of
\* Phase B opens the file named by t_initial, and the earliest map loaded is
\* the one at t_initial + sign*dt.
C10_IdentityMapNeverRead ==
    \A it \in IterationLoads :
        \A r \in 1..Len(it.loads) :
            /\ it.loads[r].name # CreateFileName(sign_prefix, precision, t_initial)
            /\ it.loads[r].time # t_initial

\* C11: Phase B emits exactly one FTLE field per iteration i = 0..steps-1;
\* in iteration i the origin time is t_final - sign*(i+1)*dt, the current
\* time when the FTLE is computed and its file is named equals t_final
\* exactly, and the last iteration has origin time t_initial.
C11_OneFTLEPerIterationAtFinalTime ==
    /\ \A k \in 1..Len(ftleFiles) :
          /\ ftleFiles[k].iter = k - 1
          /\ ftleFiles[k].origin = ExpectedOrigin(cfg, k - 1)
          /\ ftleFiles[k].final = F64FromInt(FinalOf(cfg))
    /\ pc \in {"phaseB", "compose"} => Len(ftleFiles) = i
    /\ pc = "done" =>
          /\ Len(ftleFiles) = cfg.steps
          /\ cfg.steps >= 1 =>
                ftleFiles[cfg.steps].origin = F64FromInt(InitialOf(cfg))

\* C12 as stated: at the start of Phase A step s (0 <= s < steps) the current
\* position field is the uniform grid and the time of the flow field equals
\* t_initial + sign*s*dt.
C12_StepStartsAtGridTime ==
    pc = "phaseA" /\ PhaseALoopCond(i, cfg.steps) =>
        /\ curPos = UniformGrid
        /\ curTime = GridTime(cfg, i)

\* C12 amended: at the start of Phase A step s the current position field is
\* the uniform grid, and the time of the flow field is t_initial after s
\* additions of sign*dt, each rounded: within rounding of
\* t_initial + sign*s*dt, not always equal to it.  Every file Phase A wrote
\* is the identity map or the advection of the uniform grid over one step.
C12_StepStartsFromUniformGrid ==
    /\ pc = "phaseA" =>
          /\ i <= cfg.steps
          /\ curPos = UniformGrid
          /\ curTime = Advanced(cfg, F64FromInt(InitialOf(cfg)), i)
          /\ cfg.steps >= 1 => Near(curTime, TimeAt(cfg, InitialOf(cfg), i))
    /\ \A n \in DOMAIN stepFiles :
          \/ stepFiles[n] = UniformGrid
          \/ \E s \in 0..(cfg.steps - 1) :
                stepFiles[n] =
                    <<StepMap(Advanced(cfg, F64FromInt(InitialOf(cfg)), s),
                              Advanced(cfg, F64FromInt(InitialOf(cfg)), s + 1))>>

C12_Witness ==
    /\ pc = "phaseA"
    /\ PhaseALoopCond(i, cfg.steps)
    /\ i >= 2
    /\ Len(runs) = i
    /\ curPos = UniformGrid
    /\ curTime # GridTime(cfg, i)

\* C13: each step flow map is written exactly once and is never overwritten:
\* the steps+1 names Phase A writes are pairwise distinct, so the directory
\* holds one file more after every write of Phase A and steps+1 files from
\* the end of Phase A on.
C13_StepMapsWrittenOnce ==
    /\ pc = "phaseA" => Cardinality(DOMAIN stepFiles) = i + 1
    /\ pc \in {"phaseB", "compose", "done"} =>
          Cardinality(DOMAIN stepFiles) = cfg.steps + 1

====
